---- MODULE Spec2Model ----
(***************************************************************************)
(* Package state and deployment engine of the Valheim mod manager          *)
(* (src/manager.py): the ledger installed / removed / changed, the session *)
(* fields of the catalog packages, the archive cache and the two staging   *)
(* trees, driven by Package.install / upgrade / remove / rollback,         *)
(* ModPackages.commit_changes and a process restart (load_caches).         *)
(* Further sections model the game directory (ModPackages.sync_game), the  *)
(* start of the program (cli.check_environment), the export and deploy     *)
(* flow (cli.export_package) and the Revert menu (cli.rollback).           *)
(*                                                                         *)
(* Representation of strings that the code parses:                         *)
(*   - a version string "5.4.10" is the tuple of its dot-separated numbers *)
(*     <<5, 4, 10>>; string equality is tuple equality, version.parse      *)
(*     ordering is VersionLess;                                            *)
(*   - a dependency specifier "owner-name-version" is the tuple of its     *)
(*     dash-separated tokens <<owner, name, version>>;                     *)
(*   - a path or archive entry name is the tuple of its '/'-separated      *)
(*     segments, a trailing "" segment standing for a trailing '/'.        *)
(* None is the empty tuple.  The `updated` timestamp of an installed entry *)
(* and the changelog text file are not modelled.  The date fields of the   *)
(* catalog (manager.py:42, 93, 94) are not modelled either.                *)
(***************************************************************************)
EXTENDS Integers, Sequences, FiniteSets, TLC

None == <<>>

\* Depth at which the interpreter gives up a recursion of Package.install.
MaxDepth == 6

(***************************************************************************)
(* Catalog snapshots (.cache/packages.json), each in file order, versions  *)
(* newest first as the catalog lists them.  Each version carries the entry *)
(* names of the archive behind its download URL.  `catalog` names the      *)
(* snapshot on disk; only the refetch of a start-up replaces it.           *)
(*   twins: two packages share the name BepInExPack_Valheim under          *)
(*          different owners, with different version lists;                *)
(*   deps:  both versions of Foo depend on a version of the base pack;     *)
(*   fork:  Foo depends on the base pack, which has a same-named fork;     *)
(*   pair:  Foo, in two versions, depends on the base pack, of which only  *)
(*          the newest version is published;                               *)
(*   solo:  one package without dependencies, in two versions;             *)
(*   none:  there is no packages.json;                                     *)
(*   zips, hostile, cycle, names: see below.                               *)
(***************************************************************************)
VARIABLE catalog

Entry(segs) == [segs |-> segs, bs |-> FALSE]

BsEntry(segs) == [segs |-> segs, bs |-> TRUE]

Bep1 ==
  [uuid |-> "uBep1", owner |-> "denikson", name |-> "BepInExPack_Valheim",
   categories |-> {},
   versions |-> <<
     [version |-> <<5, 4, 10>>, dependencies |-> <<>>,
      files |-> << Entry(<<"BepInExPack_Valheim", "">>),
                   Entry(<<"BepInExPack_Valheim", "winhttp.dll">>),
                   Entry(<<"README.md">>) >>],
     [version |-> <<5, 4, 9>>, dependencies |-> <<>>,
      files |-> << Entry(<<"BepInExPack_Valheim", "winhttp.dll">>),
                   Entry(<<"BepInExPack_Valheim", "doorstop.ini">>) >>] >>]

Bep2 ==
  [uuid |-> "uBep2", owner |-> "fork", name |-> "BepInExPack_Valheim",
   categories |-> {},
   versions |-> <<
     [version |-> <<5, 4, 9>>, dependencies |-> <<>>,
      files |-> << Entry(<<"BepInExPack_Valheim", "winhttp.dll">>) >>] >>]

Foo ==
  [uuid |-> "uFoo", owner |-> "o1", name |-> "Foo",
   categories |-> {"Server-side"},
   versions |-> <<
     [version |-> <<2, 0, 0>>,
      dependencies |-> << <<"denikson", "BepInExPack_Valheim", <<5, 4, 10>> >> >>,
      files |-> << Entry(<<"plugins", "Foo", "Foo", "x.dll">>),
                   Entry(<<"plugins", "Foo", "README.md">>) >>],
     [version |-> <<1, 0, 0>>,
      dependencies |-> << <<"denikson", "BepInExPack_Valheim", <<5, 4, 9>> >> >>,
      files |-> << BsEntry(<<"plugins", "Foo", "x.dll">>),
                   Entry(<<"old.cfg">>) >>] >>]

\* The same packages with only their newest version published.
Bep1New == [Bep1 EXCEPT !.versions = <<Bep1.versions[1]>>]

FooNew == [Foo EXCEPT !.versions = <<Foo.versions[1]>>]

(***************************************************************************)
(* The snapshot the extraction is exercised on: packages without override  *)
(* whose archives hold every shape of entry name the normalisation tells   *)
(* apart (nested and single prefixes, a prefix met twice, another          *)
(* package's prefix, backslash separators, directory entries).             *)
(***************************************************************************)
Mod ==
  [uuid |-> "uMod", owner |-> "o2", name |-> "Mod",
   categories |-> {"Server-side"},
   versions |-> <<
     [version |-> <<2, 0, 0>>, dependencies |-> <<>>,
      files |-> << Entry(<<"plugins", "Mod", "">>),
                   Entry(<<"plugins", "Mod", "Mod", "x.dll">>),
                   Entry(<<"plugins", "Mod", "README.md">>),
                   Entry(<<"Mod", "">>),
                   Entry(<<"Mod", "y.dll">>),
                   Entry(<<"Mod", "plugins", "Mod", "w.dll">>),
                   Entry(<<"plugins", "Mod", "plugins", "Mod", "v.dll">>),
                   Entry(<<"Mod", "Mod", "u.dll">>),
                   BsEntry(<<"plugins", "Mod", "Mod", "z.dll">>),
                   BsEntry(<<"Mod", "">>),
                   Entry(<<"docs", "">>),
                   Entry(<<"docs", "a.txt">>) >>],
     [version |-> <<1, 0, 0>>, dependencies |-> <<>>,
      files |-> << Entry(<<"a.cfg">>),
                   Entry(<<"plugins", "Mod", "x.dll">>) >>] >>]

Lib ==
  [uuid |-> "uLib", owner |-> "o2", name |-> "Lib",
   categories |-> {},
   versions |-> <<
     [version |-> <<0, 1>>, dependencies |-> <<>>,
      files |-> << Entry(<<"plugins", "Mod", "q.dll">>),
                   Entry(<<"Lib", "Lib">>),
                   Entry(<<"plugins", "Lib">>),
                   Entry(<<"Mod", "">>),
                   Entry(<<"lib.txt">>) >>] >>]

(***************************************************************************)
(* A snapshot with an archive whose entry names climb out of the package's *)
(* directory or are absolute.  A regular file comes first, so that the     *)
(* directory the later names climb from exists when they are written.      *)
(***************************************************************************)
Evil ==
  [uuid |-> "uEvil", owner |-> "o3", name |-> "Evil",
   categories |-> {},
   versions |-> <<
     [version |-> <<1, 1>>, dependencies |-> <<>>,
      files |-> << Entry(<<"a.dll">>),
                   Entry(<<"..", "x.dll">>),
                   Entry(<<"plugins", "Evil", "..", "..", "..", "..", "y.dll">>),
                   BsEntry(<<"..", "Lib", "lib.txt">>),
                   Entry(<<"", "tmp", "abs.txt">>) >>],
     [version |-> <<1, 0>>, dependencies |-> <<>>,
      files |-> << Entry(<<"a.dll">>), Entry(<<"sub", "b.dll">>) >>] >>]

(***************************************************************************)
(* A snapshot whose dependencies form a cycle: Hub 2.0.0 needs Rim 1.0.0,  *)
(* which needs Hub 2.0.0.  The older versions and Hub 3.0.0 are outside    *)
(* the cycle.                                                              *)
(***************************************************************************)
Hub ==
  [uuid |-> "uHub", owner |-> "o4", name |-> "Hub", categories |-> {},
   versions |-> <<
     [version |-> <<3, 0, 0>>, dependencies |-> <<>>,
      files |-> << Entry(<<"hub.dll">>) >>],
     [version |-> <<2, 0, 0>>,
      dependencies |-> << <<"o4", "Rim", <<1, 0, 0>> >> >>,
      files |-> << Entry(<<"hub.dll">>) >>],
     [version |-> <<1, 0, 0>>, dependencies |-> <<>>,
      files |-> << Entry(<<"hub.dll">>) >>] >>]

Rim ==
  [uuid |-> "uRim", owner |-> "o4", name |-> "Rim", categories |-> {},
   versions |-> <<
     [version |-> <<1, 0, 0>>,
      dependencies |-> << <<"o4", "Hub", <<2, 0, 0>> >> >>,
      files |-> << Entry(<<"rim.dll">>) >>],
     [version |-> <<0, 9, 0>>,
      dependencies |-> << <<"o4", "Hub", <<1, 0, 0>> >> >>,
      files |-> << Entry(<<"rim.dll">>) >>] >>]

(***************************************************************************)
(* The snapshot the search is exercised on.  The search looks inside       *)
(* strings, so here owners, names, URLs and version strings are spelled    *)
(* out as tuples of one-character strings; the fixed head of a catalog URL *)
(* is one element, UrlPrefix.  Two packages share the name Q_D, a third    *)
(* name contains it, and one owner's name holds two dashes.                *)
(***************************************************************************)
UrlPrefix == "https://valheim.thunderstore.io/package/"

\* package_url of the package owner/name.
Url(owner, name) == <<UrlPrefix>> \o owner \o <<"/">> \o name \o <<"/">>

V101 == <<"1", ".", "0", ".", "1">>

Named(uuid, owner, name) ==
  [uuid |-> uuid, owner |-> owner, name |-> name, url |-> Url(owner, name),
   categories |-> {},
   versions |-> << [version |-> V101, dependencies |-> <<>>, files |-> <<>>] >>]

SearchCatalog ==
  << Named("uQD", <<"M">>, <<"Q", "_", "D">>),
     Named("uQD2", <<"N">>, <<"Q", "_", "D">>),
     Named("uXQD", <<"M">>, <<"X", "Q", "_", "D">>),
     Named("uDash", <<"a", "-", "b", "-", "c">>, <<"Z">>) >>

Catalogs ==
  [twins |-> <<Bep1, Bep2>>,
   deps |-> <<Bep1, Foo>>,
   fork |-> <<Bep1New, Bep2, FooNew>>,
   pair |-> <<Bep1New, Foo>>,
   zips |-> <<Mod, Lib>>,
   solo |-> <<Mod>>,
   mixed |-> <<Bep1New, Lib>>,
   none |-> <<>>,
   hostile |-> <<Evil, Lib>>,
   cycle |-> <<Hub, Rim>>,
   names |-> SearchCatalog]

PackagesJson == Catalogs[catalog]

\* Package.overrides
overrides ==
  [n \in {"BepInExPack_Valheim"} |->
     [source |-> <<"BepInExPack_Valheim">>, dest |-> <<>>]]

\* ModPackages.config['override_server']
override_server == {}

\* The values of field f over a list of records.
FieldSet(ps, f) == {ps[i][f] : i \in 1..Len(ps)}

Uuids == FieldSet(PackagesJson, "uuid")

Names == FieldSet(PackagesJson, "name")

\* The first element of ps whose uuid is u.
FirstByUuid(ps, u) ==
  ps[CHOOSE i \in 1..Len(ps) :
       ps[i].uuid = u /\ \A j \in 1..(i - 1) : ps[j].uuid # u]

\* ModPackages.get_by_uuid
get_by_uuid(u) == FirstByUuid(PackagesJson, u)

VersionsOf(u) == FieldSet(get_by_uuid(u).versions, "version")

(***************************************************************************)
(* version.parse(a) < version.parse(b) on dotted-numeric strings: the      *)
(* release numbers are compared left to right as integers, a missing       *)
(* trailing number counting as 0.                                          *)
(***************************************************************************)
Seg(a, i) == IF i <= Len(a) THEN a[i] ELSE 0

MaxLen(a, b) == IF Len(a) >= Len(b) THEN Len(a) ELSE Len(b)

VersionLess(a, b) ==
  \E i \in 1..MaxLen(a, b) :
    /\ Seg(a, i) < Seg(b, i)
    /\ \A j \in 1..(i - 1) : Seg(a, j) = Seg(b, j)

\* Package.get_highest_version: index of the first version no later one
\* of the list exceeds strictly (0: the list is empty, the code's None).
RECURSIVE HighestFrom(_, _, _)
HighestFrom(vs, i, best) ==
  IF i > Len(vs) THEN best
  ELSE HighestFrom(vs, i + 1,
                   IF best = 0 \/ VersionLess(vs[best].version, vs[i].version)
                   THEN i ELSE best)

\* Mutant: the last version of the list is taken for the highest.
get_highest_version_last(p) == Len(p.versions)

get_highest_version(p) == HighestFrom(p.versions, 1, 0)

\* Package.get_version: index of the first version whose string is vers
\* (0: none, the code's implicit None).
RECURSIVE VersionFrom(_, _, _)
VersionFrom(vs, vers, i) ==
  IF i > Len(vs) THEN 0
  ELSE IF vs[i].version = vers THEN i
  ELSE VersionFrom(vs, vers, i + 1)

get_version(p, vers) == VersionFrom(p.versions, vers, 1)

(***************************************************************************)
(* Archive extraction, Package._extract_zip.                               *)
(***************************************************************************)
\* s.startswith(dir + '/') on '/'-separated segments.
StartsWithDir(segs, dir) ==
  /\ Len(segs) > Len(dir)
  /\ SubSeq(segs, 1, Len(dir)) = dir

\* s[len(dir + '/'):] when s starts with dir + '/', else s.
StripDir(segs, dir) ==
  IF StartsWithDir(segs, dir) THEN SubSeq(segs, Len(dir) + 1, Len(segs)) ELSE segs

\* Lines 323: an empty name or one ending in '/' is not written (None).
KeepFile(f) == IF f = <<"">> \/ f[Len(f)] = "" THEN None ELSE f

\* Mutant: only the leading plugins/<name>/ is cut.
Relative_once(name, f0) == KeepFile(StripDir(f0, <<"plugins", name>>))

\* Lines 311-321: backslashes become '/', then a leading plugins/<name>/
\* and then a leading <name>/ are cut.
Relative(name, f0) == KeepFile(StripDir(StripDir(f0, <<"plugins", name>>), <<name>>))

\* The relative file name an archive entry is written under, None for an
\* entry that is skipped.  An entry whose separators are backslashes holds
\* no '/' before the replacement, so it never starts with a source root.
NormalizeEntry(name, e) ==
  IF name \in DOMAIN overrides
  THEN IF ~e.bs /\ StartsWithDir(e.segs, overrides[name].source)
       THEN Relative(name, StripDir(e.segs, overrides[name].source))
       ELSE None
  ELSE Relative(name, e.segs)

DestRoot(name) ==
  IF name \in DOMAIN overrides THEN overrides[name].dest
  ELSE <<"BepInEx", "plugins", name>>

\* The entry names of version vers of package p's archive.
FilesOf(p, vers) == p.versions[get_version(p, vers)].files

\* The entry names of the archive with content tag c = [uuid, version].
ArchiveFiles(c) == FilesOf(get_by_uuid(c.uuid), c.version)

\* open(path, 'wb') and copy: the file at path now holds content c.
Put(tree, path, c) ==
  [q \in DOMAIN tree \cup {path} |-> IF q = path THEN c ELSE tree[q]]

\* The file a relative name denotes from the directory `base`, as the file
\* system resolves it: a '..' segment climbs to the parent directory; above
\* the root of the tree it stays, as a leading '..' of the result.
RECURSIVE Resolved(_, _)
Resolved(base, segs) ==
  IF segs = <<>> THEN base
  ELSE IF Head(segs) # ".." THEN Resolved(Append(base, Head(segs)), Tail(segs))
  ELSE IF base # <<>> /\ base[Len(base)] # ".."
  THEN Resolved(SubSeq(base, 1, Len(base) - 1), Tail(segs))
  ELSE Resolved(Append(base, ".."), Tail(segs))

\* Line 324, os.path.join('.cache/' + type + '/', dest, filename), as a
\* path relative to the tree: a filename that starts with '/' (its first
\* segment is empty) discards what precedes it and stays absolute.
JoinPath(dest, f) == IF Head(f) = "" THEN f ELSE Resolved(<<>>, dest \o f)

WriteEntry(tree, dest, f, c) ==
  IF f = None THEN tree ELSE Put(tree, JoinPath(dest, f), c)

\* Writes every surviving entry of the cached archive over the tree.
RECURSIVE ExtractFrom(_, _, _, _, _)
ExtractFrom(tree, name, c, files, i) ==
  IF i > Len(files) THEN tree
  ELSE ExtractFrom(WriteEntry(tree, DestRoot(name), NormalizeEntry(name, files[i]), c),
                   name, c, files, i + 1)

\* _extract_zip(package, type) for the package named name; c is the content
\* of the cached archive.
extract_zip(tree, name, c) == ExtractFrom(tree, name, c, ArchiveFiles(c), 1)

\* shutil.rmtree of BepInEx/plugins/<name>, a missing directory being skipped.
RemoveDir(tree, name) ==
  [q \in {r \in DOMAIN tree : ~StartsWithDir(r, <<"BepInEx", "plugins", name>>)}
     |-> tree[q]]

(***************************************************************************)
(* The state the operations work on, as one record while a handler runs:   *)
(*   sv, iv      selected_version / installed_version of each Package      *)
(*   installed, removed, changed   the ledger in memory                    *)
(*   ifile, rfile, cfile           installed.json, removed.json,           *)
(*                                 changed.json: [exists, data]            *)
(*   client, server                the staging trees, path -> content tag  *)
(*   cache       .cache/packages: <<name, version>> -> content tag         *)
(*   mtime       the modification time of each file of the client tree     *)
(*   game        the game directory: path -> [content, mtime]              *)
(*   clock       the time; only what sync_game compares is kept of it:     *)
(*               it advances when a sync has run, so writes that no sync   *)
(*               separates carry the same time                             *)
(*   fault       what fails in the environment during the handler, if      *)
(*               anything                                                  *)
(*   res         "ok", or the exception that ended the handler             *)
(***************************************************************************)
EmptyMap == [x \in {} |-> None]

File(data) == [exists |-> TRUE, data |-> data]

NoFile(empty) == [exists |-> FALSE, data |-> empty]

InSeq(x, s) == \E i \in 1..Len(s) : s[i] = x

\* del(s[s.index(x)]) : removes the first occurrence.
RECURSIVE DelFirst(_, _)
DelFirst(s, x) ==
  IF s = <<>> THEN <<>>
  ELSE IF Head(s) = x THEN Tail(s)
  ELSE <<Head(s)>> \o DelFirst(Tail(s), x)

Raise(st, exc) == [st EXCEPT !.res = exc]

\* The uuids of the packages of ps from index i on whose owner and name
\* are those of the owner-name-version query q, in catalog order.
RECURSIVE Matches(_, _, _)
Matches(ps, q, i) ==
  IF i > Len(ps) THEN <<>>
  ELSE (IF ps[i].owner = q[1] /\ ps[i].name = q[2] THEN <<ps[i].uuid>> ELSE <<>>)
         \o Matches(ps, q, i + 1)

Selected(st, rs, vers) ==
  [results |-> rs,
   st |-> [st EXCEPT !.sv = [u \in DOMAIN st.sv |->
                               IF InSeq(u, rs) THEN vers ELSE st.sv[u]]]]

\* ModPackages.search for an owner-name-version query (the form every
\* dependency specifier has): the matches in catalog order, each with its
\* selected_version set to the parsed version.
search(st, q) == Selected(st, Matches(PackagesJson, q, 1), q[3])

\* Mutant: every mutation opens the entry anew, `old` included.
ChangedAfter_reopened(ch, u, iv, ver) ==
  [x \in DOMAIN ch \cup {u} |->
     IF x = u THEN [old |-> iv, new |-> ver] ELSE ch[x]]

(***************************************************************************)
(* ModPackages.search on any query string, spelled out as a tuple of       *)
(* one-character strings (UrlPrefix being one element).                    *)
(***************************************************************************)
\* The index of the first c in q at or after i, past the end if none.
RECURSIVE IndexFrom(_, _, _)
IndexFrom(q, c, i) ==
  IF i > Len(q) THEN i
  ELSE IF q[i] = c THEN i
  ELSE IndexFrom(q, c, i + 1)

\* re.match('([^-]*)-([^-]*)-([^-]*)', q) with the first dash at d1 and the
\* next at d2: a match needs both; the third group ends before the next
\* dash or at the end.
Groups(q, d1, d2) ==
  [match |-> d2 <= Len(q),
   owner |-> SubSeq(q, 1, d1 - 1),
   name |-> SubSeq(q, d1 + 1, d2 - 1),
   vers |-> SubSeq(q, d2 + 1, IndexFrom(q, "-", d2 + 1) - 1)]

GroupsFrom(q, d1) == Groups(q, d1, IndexFrom(q, "-", d1 + 1))

Triple(q) == GroupsFrom(q, IndexFrom(q, "-", 1))

\* str.lower()
LowerChar(c) ==
  CASE c = "D" -> "d" [] c = "M" -> "m" [] c = "N" -> "n" [] c = "Q" -> "q"
    [] c = "X" -> "x" [] c = "Z" -> "z" [] OTHER -> c

lower(t) == [i \in 1..Len(t) |-> LowerChar(t[i])]

\* str.replace(a, b) for one-character a and b.
replace(t, a, b) == [i \in 1..Len(t) |-> IF t[i] = a THEN b ELSE t[i]]

\* hay.find(needle) != -1
Contains(hay, needle) ==
  \E k \in 0..(Len(hay) - Len(needle)) : SubSeq(hay, k + 1, k + Len(needle)) = needle

\* Mutant: an owner-name-version query matches on the name alone.
Hit_anyowner(p, m, q) ==
  IF m.match THEN p.name = m.name
  ELSE IF InSeq(UrlPrefix, q) THEN p.url = q
  ELSE Contains(lower(p.name), replace(lower(q), " ", "_"))

\* Lines 492-519: whether package p is a result of query q, m being the
\* outcome of the regular expression on q.
Hit(p, m, q) ==
  IF m.match THEN p.owner = m.owner /\ p.name = m.name
  ELSE IF InSeq(UrlPrefix, q) THEN p.url = q
  ELSE Contains(lower(p.name), replace(lower(q), " ", "_"))

\* The uuids of the results among ps from index i on, in catalog order.
RECURSIVE Found(_, _, _, _)
Found(ps, m, q, i) ==
  IF i > Len(ps) THEN <<>>
  ELSE (IF Hit(ps[i], m, q) THEN <<ps[i].uuid>> ELSE <<>>) \o Found(ps, m, q, i + 1)

\* Mutant: every search sets the selected_version of its results.
SearchResult_always(st, rs, m) == Selected(st, rs, m.vers)

\* Line 512: only the owner-name-version form sets selected_version.
SearchResult(st, rs, m) ==
  IF m.match THEN Selected(st, rs, m.vers) ELSE [results |-> rs, st |-> st]

SearchParsed(st, m, q) == SearchResult(st, Found(PackagesJson, m, q, 1), m)

\* ModPackages.search(query): [results, st].
search_query(st, q) == SearchParsed(st, Triple(q), q)

\* Lines 609-617: an existing entry keeps old, a new one takes it from the
\* package's installed_version.
ChangedAfter(ch, u, iv, ver) ==
  IF u \in DOMAIN ch THEN [ch EXCEPT ![u].new = ver]
  ELSE [x \in DOMAIN ch \cup {u} |->
          IF x = u THEN [old |-> iv, new |-> ver] ELSE ch[x]]

\* Lines 621-624 and 636-640, 650 (a function has no key order to sort).
InstalledAfter(inst, p, ver) ==
  IF ver = None THEN [n \in DOMAIN inst \ {p.name} |-> inst[n]]
  ELSE [n \in DOMAIN inst \cup {p.name} |->
          IF n = p.name THEN [uuid |-> p.uuid, version |-> ver] ELSE inst[n]]

\* Mutant: an install does not take the name off `removed`.
RemovedAfter_kept(rem, name, ver) ==
  IF ver = None /\ ~InSeq(name, rem) THEN Append(rem, name) ELSE rem

\* Lines 626-627 and 633-634.
RemovedAfter(rem, name, ver) ==
  IF ver = None
  THEN IF InSeq(name, rem) THEN rem ELSE Append(rem, name)
  ELSE IF InSeq(name, rem) THEN DelFirst(rem, name) ELSE rem

Mutated(st, p, ver) ==
  [st EXCEPT !.changed = ChangedAfter(st.changed, p.uuid, st.iv[p.uuid], ver),
             !.installed = InstalledAfter(st.installed, p, ver),
             !.removed = RemovedAfter(st.removed, p.name, ver)]

\* Lines 652-659: the three json.dump calls.
Dumped(mem) ==
  [mem EXCEPT !.ifile = File(mem.installed), !.rfile = File(mem.removed),
              !.cfile = File(mem.changed)]

\* The environment of one call: the package whose archive cannot be fetched
\* ("download"), whose fetch is answered with an error body ("body") or
\* whose extraction into a tree breaks off ("client", "server"); NoFault
\* when every fetch and write succeeds.
NoFault == [pkg |-> "", at |-> "none"]

FaultAt(st, u, at) == st.fault.pkg = u /\ st.fault.at = at

\* The points inside lines 652-659 where the process may stop (it is
\* killed, or an open or a write fails), with the number of json.dump calls
\* completed before each.
DumpsBefore == [dump0 |-> 0, dump1 |-> 1, dump2 |-> 2]

\* Lines 652-659 up to a stop after k dumps: installed.json is written
\* first, removed.json second, changed.json last.
DumpedUntil(mem, k) ==
  [mem EXCEPT !.ifile = IF k >= 1 THEN File(mem.installed) ELSE mem.ifile,
              !.rfile = IF k >= 2 THEN File(mem.removed) ELSE mem.rfile]

\* ModPackages.update_installed_cache(pkg, ver).  On a removal line 630
\* concatenates pkg.installed_version to a string, which raises TypeError
\* when it is None: after the ledger was changed in memory, before the dumps.
update_installed_cache(st, u, ver) ==
  IF ver = None /\ st.iv[u] = None
  THEN Raise(Mutated(st, get_by_uuid(u), ver), "TypeError")
  ELSE IF st.fault.pkg = u /\ st.fault.at \in DOMAIN DumpsBefore
  THEN Raise(DumpedUntil(Mutated(st, get_by_uuid(u), ver), DumpsBefore[st.fault.at]),
             "Stopped")
  ELSE Dumped(Mutated(st, get_by_uuid(u), ver))


\* The body of an error response (a 404 page): webreq.content whatever the
\* status of the response, and not a zip archive.
ErrorBody == [uuid |-> "", version |-> None]

\* Lines 206-209: the archive is fetched from the version's URL unless a
\* file of that name is in the cache already.  requests.get raises when
\* the server cannot be reached, before the cache file is opened; the
\* status of a response is not looked at.
Downloaded(st, key, c) ==
  IF key \in DOMAIN st.cache THEN st
  ELSE IF FaultAt(st, c.uuid, "download") THEN Raise(st, "ConnectionError")
  ELSE [st EXCEPT !.cache = [k \in DOMAIN st.cache \cup {key} |->
                               IF k # key THEN st.cache[k]
                               ELSE IF FaultAt(st, c.uuid, "body") THEN ErrorBody
                               ELSE c]]

\* An extraction that breaks off (the copy of line 331 raises OSError)
\* after the first entry of the archive was processed.
extract_part(tree, name, c) ==
  ExtractFrom(tree, name, c, SubSeq(ArchiveFiles(c), 1, 1), 1)

\* The modification times of the files of `tree` once those of `written`
\* were written at time t.
Stamped(mt, tree, written, t) ==
  [q \in DOMAIN tree |-> IF q \in DOMAIN written THEN t ELSE mt[q]]

\* The client tree becomes `tree`; `written` holds the files written.
ClientWritten(st, tree, written) ==
  [st EXCEPT !.client = tree, !.mtime = Stamped(st.mtime, tree, written, st.clock)]

\* Line 214; zipfile.ZipFile (line 295) raises BadZipFile on a file that
\* is not an archive.
ClientExtracted(st, p, key) ==
  IF st.res # "ok" THEN st
  ELSE IF st.cache[key] = ErrorBody THEN Raise(st, "BadZipFile")
  ELSE IF FaultAt(st, p.uuid, "client")
  THEN Raise(ClientWritten(st, extract_part(st.client, p.name, st.cache[key]),
                           extract_part(EmptyMap, p.name, st.cache[key])),
             "OSError")
  ELSE ClientWritten(st, extract_zip(st.client, p.name, st.cache[key]),
                     extract_zip(EmptyMap, p.name, st.cache[key]))

\* Lines 215-216.
ServerExtracted(st, p, key) ==
  IF st.res # "ok" THEN st
  ELSE IF ~("Server-side" \in p.categories \/ p.name \in override_server) THEN st
  ELSE IF FaultAt(st, p.uuid, "server")
  THEN Raise([st EXCEPT !.server = extract_part(st.server, p.name, st.cache[key])],
             "OSError")
  ELSE [st EXCEPT !.server = extract_zip(st.server, p.name, st.cache[key])]

\* Lines 214-216.
Extracted(st, p, key) == ServerExtracted(ClientExtracted(st, p, key), p, key)

\* Line 219, reached unless the download or an extraction raised.
Recorded(st, u, ver) ==
  IF st.res # "ok" THEN st ELSE update_installed_cache(st, u, ver)

\* Line 221.
MarkInstalled(st, u, ver) ==
  IF st.res # "ok" THEN st ELSE [st EXCEPT !.iv[u] = ver]

\* Mutant: the ledger is written before the archive is extracted.
InstallFiles_early(st, p, ver) ==
  IF st.res # "ok" THEN st
  ELSE MarkInstalled(
         Extracted(
           Recorded(Downloaded(st, <<p.name, ver>>, [uuid |-> p.uuid, version |-> ver]),
                    p.uuid, ver),
           p, <<p.name, ver>>),
         p.uuid, ver)

\* Lines 203-221, entered unless a dependency's install raised.
InstallFiles(st, p, ver) ==
  IF st.res # "ok" THEN st
  ELSE MarkInstalled(
         Recorded(
           Extracted(Downloaded(st, <<p.name, ver>>, [uuid |-> p.uuid, version |-> ver]),
                     p, <<p.name, ver>>),
           p.uuid, ver),
         p.uuid, ver)

\* Package.install (depth counts the nested calls), and the dependency
\* loops inside it.  vi is the index of the version resolved at lines
\* 185-188; v.version raises AttributeError when there is none.
RECURSIVE install(_, _, _), InstallDeps(_, _, _, _), InstallResults(_, _, _, _)
\* Mutant: a selected version the package does not have is recorded all
\* the same.
InstallResolved_unchecked(st, p, depth, vi) ==
  IF vi = 0
  THEN MarkInstalled(update_installed_cache(st, p.uuid, st.sv[p.uuid]),
                     p.uuid, st.sv[p.uuid])
  ELSE InstallFiles(InstallDeps(st, p.versions[vi].dependencies, 1, depth),
                    p, p.versions[vi].version)

InstallResolved(st, p, depth, vi) ==
  IF vi = 0 THEN Raise(st, "AttributeError")
  ELSE InstallFiles(InstallDeps(st, p.versions[vi].dependencies, 1, depth),
                    p, p.versions[vi].version)

InstallPackage(st, p, depth) ==
  InstallResolved(st, p, depth,
                  IF st.sv[p.uuid] # None THEN get_version(p, st.sv[p.uuid])
                  ELSE get_highest_version(p))

\* Mutant: past the depth bound the call returns without doing anything.
install_giveup(st, u, depth) ==
  IF depth > MaxDepth THEN st
  ELSE InstallPackage(st, get_by_uuid(u), depth)

install(st, u, depth) ==
  IF depth > MaxDepth THEN Raise(st, "RecursionError")
  ELSE InstallPackage(st, get_by_uuid(u), depth)

SearchedDeps(sr, depth) == InstallResults(sr.st, sr.results, 1, depth)

\* for d in v.dependencies (line 193)
InstallDeps(st, deps, i, depth) ==
  IF i > Len(deps) \/ st.res # "ok" THEN st
  ELSE InstallDeps(SearchedDeps(search(st, deps[i]), depth), deps, i + 1, depth)

\* for p in ModPackages.search(d) (lines 194-201): both branches call
\* p.install().
InstallResults(st, rs, j, depth) ==
  IF j > Len(rs) \/ st.res # "ok" THEN st
  ELSE InstallResults(
         IF st.iv[rs[j]] = None \/ VersionLess(st.iv[rs[j]], st.sv[rs[j]])
         THEN install(st, rs[j], depth + 1) ELSE st,
         rs, j + 1, depth)

HighestVersion(p) == p.versions[get_highest_version(p)].version

\* Package.get_installed_version: index of the first version whose string
\* is the installed_version iv (0: none, the code's implicit None).
get_installed_version(p, iv) == VersionFrom(p.versions, iv, 1)

UpdateOf(p, vi) ==
  IF vi = 0 THEN FALSE
  ELSE p.versions[vi].version # p.versions[get_highest_version(p)].version

\* Package.check_update_available, for installed_version iv.
check_update_available(p, iv) == UpdateOf(p, get_installed_version(p, iv))

\* Mutant: the upgrade installs whatever version is selected already.
upgrade_selected(st, u) == install(st, u, 1)

\* Package.upgrade
upgrade(st, u) ==
  install([st EXCEPT !.sv[u] = HighestVersion(get_by_uuid(u))], u, 1)

\* Lines 234-243.
DirsRemoved(st, name) ==
  [st EXCEPT !.client = RemoveDir(st.client, name),
             !.mtime = RemoveDir(st.mtime, name),
             !.server = RemoveDir(st.server, name)]

\* Line 246.
MarkRemoved(st, u) ==
  IF st.res # "ok" THEN st ELSE [st EXCEPT !.iv[u] = None]

\* Package.remove
remove(st, u) ==
  MarkRemoved(update_installed_cache(DirsRemoved(st, get_by_uuid(u).name), u, None), u)

\* Package.rollback
rollback(st, u) ==
  IF u \notin DOMAIN st.changed THEN st
  ELSE IF st.changed[u].old = st.changed[u].new THEN st
  ELSE IF st.changed[u].old = None THEN remove(st, u)
  ELSE install([st EXCEPT !.sv[u] = st.changed[u].old], u, 1)

\* Mutant: the commit leaves `removed` as it is in memory.
commit_changes_kept(st) ==
  [st EXCEPT !.cfile = NoFile(EmptyMap), !.rfile = NoFile(<<>>),
             !.changed = EmptyMap]

\* The files os.walk finds in a staging tree: those inside it.
Walked(tree) == {q \in DOMAIN tree : q[1] # ".." /\ q[1] # ""}

\* Line 678: the files of the client tree that are copied, those the
\* game directory lacks or holds with another modification time.
Copied(st) ==
  {q \in Walked(st.client) : q \notin DOMAIN st.game \/ st.game[q].mtime # st.mtime[q]}

\* Lines 673-687: shutil.copy2 copies content and modification time.
GameCopied(st, copied) ==
  [q \in DOMAIN st.game \cup copied |->
     IF q \in copied THEN [content |-> st.client[q], mtime |-> st.mtime[q]]
     ELSE st.game[q]]

\* Lines 690-694: shutil.rmtree of BepInEx/plugins/<r> for every r of
\* `removed`, a missing directory being skipped.
RECURSIVE GameRemoved(_, _, _)
GameRemoved(tree, rem, i) ==
  IF i > Len(rem) THEN tree
  ELSE GameRemoved(RemoveDir(tree, rem[i]), rem, i + 1)

\* Mutant: the names of `removed` are left in the game directory.
sync_game_keep(st) ==
  [st EXCEPT !.game = GameCopied(st, Copied(st)), !.clock = st.clock + 1]

\* ModPackages.sync_game
sync_game(st) ==
  [st EXCEPT !.game = GameRemoved(GameCopied(st, Copied(st)), st.removed, 1),
             !.clock = st.clock + 1]

\* ModPackages.commit_changes
commit_changes(st) ==
  [st EXCEPT !.cfile = NoFile(EmptyMap), !.rfile = NoFile(<<>>),
             !.changed = EmptyMap, !.removed = <<>>]

\* Lines 432-441: every Package is built anew, installed_version looked up
\* in `installed` by the package's name.
Loaded(st, ps) ==
  [st EXCEPT
     !.sv = [u \in FieldSet(ps, "uuid") |-> None],
     !.iv = [u \in FieldSet(ps, "uuid") |->
               IF FirstByUuid(ps, u).name \in DOMAIN st.installed
               THEN st.installed[FirstByUuid(ps, u).name].version ELSE None],
     !.res = "ok"]

\* ModPackages.load_caches in a new process: the ledger is read back, a
\* missing file reading as empty.
ReadLedger(st) ==
  [st EXCEPT
     !.installed = IF st.ifile.exists THEN st.ifile.data ELSE EmptyMap,
     !.removed = IF st.rfile.exists THEN st.rfile.data ELSE <<>>,
     !.changed = IF st.cfile.exists THEN st.cfile.data ELSE EmptyMap]

load_caches(st) == Loaded(ReadLedger(st), PackagesJson)

(***************************************************************************)
(* The state machine.  `last` records the handler that ran last: its name, *)
(* the package it was called on, the version the caller selected for it    *)
(* (arg) and how it ended.  An exception is not caught by any caller       *)
(* (src/cli.py), so it ends the process and only a restart follows.        *)
(***************************************************************************)
VARIABLES selected_version, installed_version, installed, removed, changed,
          ifile, rfile, cfile, client, server, cache, mtime, game, clock, last

vars == <<catalog, selected_version, installed_version, installed, removed, changed,
          ifile, rfile, cfile, client, server, cache, mtime, game, clock, last>>

State ==
  [sv |-> selected_version, iv |-> installed_version, installed |-> installed,
   removed |-> removed, changed |-> changed, ifile |-> ifile, rfile |-> rfile,
   cfile |-> cfile, client |-> client, server |-> server, cache |-> cache,
   mtime |-> mtime, game |-> game, clock |-> clock,
   fault |-> NoFault, res |-> "ok"]

\* The variables of the engine after a handler that ended in state st.
Assigned(st, op, u, arg) ==
  /\ selected_version' = st.sv
  /\ installed_version' = st.iv
  /\ installed' = st.installed
  /\ removed' = st.removed
  /\ changed' = st.changed
  /\ ifile' = st.ifile
  /\ rfile' = st.rfile
  /\ cfile' = st.cfile
  /\ client' = st.client
  /\ server' = st.server
  /\ cache' = st.cache
  /\ mtime' = st.mtime
  /\ game' = st.game
  /\ clock' = st.clock
  /\ last' = [op |-> op, pkg |-> u, arg |-> arg, res |-> st.res]

\* The same for a handler that leaves the snapshot on disk alone.
Becomes(st, op, u, arg) ==
  /\ catalog' = catalog
  /\ Assigned(st, op, u, arg)

InitCatalogs == {"twins", "deps", "fork"}

\* A first start: no ledger file, empty trees and cache.
Fresh ==
  /\ selected_version = [u \in Uuids |-> None]
  /\ installed_version = [u \in Uuids |-> None]
  /\ installed = EmptyMap
  /\ removed = <<>>
  /\ changed = EmptyMap
  /\ ifile = NoFile(EmptyMap)
  /\ rfile = NoFile(<<>>)
  /\ cfile = NoFile(EmptyMap)
  /\ client = EmptyMap
  /\ server = EmptyMap
  /\ cache = EmptyMap
  /\ mtime = EmptyMap
  /\ game = EmptyMap
  /\ clock = 0
  /\ last = [op |-> "load_caches", pkg |-> "", arg |-> None, res |-> "ok"]

Init == catalog \in InitCatalogs /\ Fresh

Running == last.res = "ok"

\* The caller picks a version (cli.py:248) or leaves the session field as
\* it is, then calls Package.install.
Install(u, s) ==
  /\ Running
  /\ s \in VersionsOf(u) \cup {None}
  /\ Becomes(install(IF s = None THEN State ELSE [State EXCEPT !.sv[u] = s], u, 1),
             "install", u, s)

Upgrade(u) == Running /\ Becomes(upgrade(State, u), "upgrade", u, None)

Remove(u) == Running /\ Becomes(remove(State, u), "remove", u, None)

Rollback(u) == Running /\ Becomes(rollback(State, u), "rollback", u, None)

Commit == Running /\ Becomes(commit_changes(State), "commit", "", None)

Restart == Becomes(load_caches(State), "load_caches", "", None)

AllVersions == UNION {VersionsOf(u) : u \in Uuids}

Next ==
  \/ \E u \in Uuids : \E s \in AllVersions \cup {None} : Install(u, s)
  \/ \E u \in Uuids : Upgrade(u)
  \/ \E u \in Uuids : Remove(u)
  \/ \E u \in Uuids : Rollback(u)
  \/ Commit
  \/ Restart

Spec == Init /\ [][Next]_vars

(***************************************************************************)
(* The same machine in an environment where a fetch or an extraction may   *)
(* fail: InstallFault(u, f) is Package.install on u while fault f holds;   *)
(* `last` records a fault that ended the call as the step's arg.           *)
(***************************************************************************)
Faults == [pkg : Uuids, at : {"download", "body", "client", "server"}]

Faulted(st, u, f) ==
  Becomes(st, "install", u, IF st.res = "ok" THEN None ELSE <<f.pkg, f.at>>)

InstallFault(u, f) ==
  /\ Running
  /\ Faulted(install([State EXCEPT !.fault = f], u, 1), u, f)

InitFault == catalog = "pair" /\ Fresh

NextFault ==
  \/ Next
  \/ \E u \in Uuids : \E f \in Faults : InstallFault(u, f)

SpecFault == InitFault /\ [][NextFault]_vars

(***************************************************************************)
(* The same machine in an environment where the process may stop while the *)
(* ledger is being written: InstallStop(u, f) and RemoveStop(u, f) are     *)
(* Package.install and Package.remove on u while the stop f holds.         *)
(***************************************************************************)
Stops == [pkg : Uuids, at : DOMAIN DumpsBefore]

Stopped(st, op, u, f) ==
  Becomes(st, op, u, IF st.res = "ok" THEN None ELSE <<f.pkg, f.at>>)

InstallStop(u, f) ==
  /\ Running
  /\ Stopped(install([State EXCEPT !.fault = f], u, 1), "install", u, f)

RemoveStop(u, f) ==
  /\ Running
  /\ Stopped(remove([State EXCEPT !.fault = f], u), "remove", u, f)

InitCrash == catalog = "solo" /\ Fresh

NextCrash ==
  \/ Next
  \/ \E u \in Uuids : \E f \in Stops : InstallStop(u, f)
  \/ \E u \in Uuids : \E f \in Stops : RemoveStop(u, f)

SpecCrash == InitCrash /\ [][NextCrash]_vars

(***************************************************************************)
(* The same machine with the deployment to the game directory: Sync is     *)
(* ModPackages.sync_game; `last` records the number of files it copied as  *)
(* the step's arg.                                                         *)
(***************************************************************************)
\* The number of syncs of a run.
MaxSyncs == 2

Sync ==
  /\ Running
  /\ clock < MaxSyncs
  /\ Becomes(sync_game(State), "sync_game", "", <<Cardinality(Copied(State))>>)

InitSync == catalog = "mixed" /\ Fresh

NextSync ==
  \/ Next
  \/ Sync

SpecSync == InitSync /\ [][NextSync]_vars

(***************************************************************************)
(* The same machine run as rounds of changes that are then rolled back.    *)
(* A round starts where `changed` is empty (at the first start, or at a    *)
(* commit); Install, Upgrade and Remove follow in any number and order,    *)
(* then Rollback is called once on each package that has a `changed`       *)
(* entry, in any order.  `last` records as the step's arg the ledger the   *)
(* round started from (start), the packages rolled back so far (done) and  *)
(* whether the rolling back has begun (phase).  A rollback that installs   *)
(* a dependency makes a `changed` entry of its own: that package is rolled *)
(* back in the round as well.                                              *)
(***************************************************************************)
Round ==
  IF last.op = "load_caches"
  THEN [start |-> installed, done |-> {}, phase |-> "change"]
  ELSE last.arg

\* A change of the round.
Changing(st, op, u) ==
  Becomes(st, op, u, [start |-> Round.start, done |-> {}, phase |-> "change"])

InstallIn(u, s) ==
  /\ Running /\ Round.phase = "change"
  /\ s \in VersionsOf(u) \cup {None}
  /\ Changing(install(IF s = None THEN State ELSE [State EXCEPT !.sv[u] = s], u, 1),
              "install", u)

UpgradeIn(u) ==
  /\ Running /\ Round.phase = "change"
  /\ Changing(upgrade(State, u), "upgrade", u)

RemoveIn(u) ==
  /\ Running /\ Round.phase = "change"
  /\ Changing(remove(State, u), "remove", u)

RollbackIn(u) ==
  /\ Running
  /\ u \in DOMAIN changed \ Round.done
  /\ Becomes(rollback(State, u), "rollback", u,
             [start |-> Round.start, done |-> Round.done \cup {u},
              phase |-> "rollback"])

\* The commit ends the round; the next one starts from the ledger as it is.
CommitIn ==
  /\ Running
  /\ Becomes(commit_changes(State), "commit", "",
             [start |-> installed, done |-> {}, phase |-> "change"])

InitRollback == catalog \in {"twins", "deps"} /\ Fresh

NextRollback ==
  \/ \E u \in Uuids : \E s \in AllVersions \cup {None} : InstallIn(u, s)
  \/ \E u \in Uuids : UpgradeIn(u)
  \/ \E u \in Uuids : RemoveIn(u)
  \/ \E u \in Uuids : RollbackIn(u)
  \/ CommitIn

SpecRollback == InitRollback /\ [][NextRollback]_vars

(***************************************************************************)
(* The export and deploy flow, cli.export_package: the four exports, the   *)
(* upload of the server tree when config.yml names a host, then the        *)
(* commit.  Export(cfg, fail, net) is the flow under a configuration cfg   *)
(* (the keys config.yml holds and the value of sftp_host), with the export *)
(* `fail` unable to write its file and the remote host behaving as `net`.  *)
(* `last` records as the step's arg the exports that returned, whether a   *)
(* host is configured, and what became of the upload.                      *)
(***************************************************************************)
Exports == <<"full", "updates", "changelog", "modlist">>

SftpKeys == {"sftp_host", "sftp_user", "sftp_path"}

Configs == [keys : SUBSET SftpKeys, host : {"", "example.org"}]

HostSet(cfg) == "sftp_host" \in cfg.keys /\ cfg.host # ""

\* Lines 279-282: each export writes into exportdir and raises when it
\* cannot (none of them catches OSError).
RECURSIVE ExportedFrom(_, _, _)
ExportedFrom(ex, fail, i) ==
  IF i > Len(Exports) \/ ex.st.res # "ok" THEN ex
  ELSE IF Exports[i] = fail THEN [ex EXCEPT !.st = Raise(ex.st, "OSError")]
  ELSE ExportedFrom([ex EXCEPT !.exported = @ \cup {Exports[i]}], fail, i + 1)

\* ModPackages.export_server_sftp: the exception it ends with, or "ok".
\* config['sftp_user'] is read before the connection is made (line 881),
\* config['sftp_path'] after it (line 885); a host that cannot be reached
\* fails the connect, one that drops the session fails the first put.
export_server_sftp(st, cfg, net) ==
  IF "sftp_user" \notin cfg.keys THEN "KeyError"
  ELSE IF net = "refused" THEN "OSError"
  ELSE IF "sftp_path" \notin cfg.keys THEN "KeyError"
  ELSE IF net = "dropped" /\ Walked(st.server) # {} THEN "OSError"
  ELSE "ok"

\* Lines 284-292: the KeyError handler encloses the call of
\* export_server_sftp as well as the read of config['sftp_host'].
Uploaded(ex, cfg, net) ==
  IF ex.st.res # "ok" \/ ~HostSet(cfg) THEN ex
  ELSE LET r == export_server_sftp(ex.st, cfg, net) IN
       IF r = "ok" THEN [ex EXCEPT !.upload = "done"]
       ELSE IF r = "KeyError" THEN [ex EXCEPT !.upload = "failed"]
       ELSE [ex EXCEPT !.upload = "failed", !.st = Raise(ex.st, r)]

\* cli.export_package; the commit of line 294 is reached unless an export
\* or the upload raised.
export_package(st, cfg, fail, net) ==
  LET ex == Uploaded(ExportedFrom([st |-> st, exported |-> {}, upload |-> "skipped"],
                                  fail, 1),
                     cfg, net)
  IN  IF ex.st.res # "ok" THEN ex ELSE [ex EXCEPT !.st = commit_changes(ex.st)]

Export(cfg, fail, net) ==
  /\ Running
  /\ LET ex == export_package(State, cfg, fail, net) IN
       Becomes(ex.st, "export_package", "",
               [exported |-> ex.exported, host |-> HostSet(cfg), upload |-> ex.upload])

InitExport == catalog = "solo" /\ Fresh

NextExport ==
  \/ Next
  \/ \E cfg \in Configs :
       \E fail \in {"none"} \cup {Exports[i] : i \in 1..Len(Exports)} :
         \E net \in {"ok", "refused", "dropped"} : Export(cfg, fail, net)

SpecExport == InitExport /\ [][NextExport]_vars

(***************************************************************************)
(* The Revert Modifications menu, cli.rollback: the packages it offers are *)
(* those of `installed` with a pending change; Revert(opt) is the menu     *)
(* answered with opt, "ALL" (rollback everything), "back", or one of the   *)
(* packages offered.  `last` records the packages offered and the answer   *)
(* as the step's arg.                                                      *)
(***************************************************************************)
\* The package names of the catalogs in the order of Python's str.
NamesInOrder == <<"BepInExPack_Valheim", "Evil", "Foo", "Hub", "Lib", "Mod", "Rim">>

NameRank(n) == CHOOSE i \in 1..Len(NamesInOrder) : NamesInOrder[i] = n

\* list.sort(key=name) is stable: u goes behind every entry that is not
\* greater.
RECURSIVE InsertByName(_, _)
InsertByName(s, u) ==
  IF s = <<>> THEN <<u>>
  ELSE IF NameRank(s[Len(s)].name) <= NameRank(u.name) THEN Append(s, u)
  ELSE Append(InsertByName(SubSeq(s, 1, Len(s) - 1), u), s[Len(s)])

\* ModPackages.get_by_uuids: the catalog's packages whose uuid is listed,
\* sorted by name.
RECURSIVE ByUuidsFrom(_, _, _, _)
ByUuidsFrom(ps, S, i, acc) ==
  IF i > Len(ps) THEN acc
  ELSE ByUuidsFrom(ps, S, i + 1,
                   IF ps[i].uuid \in S THEN InsertByName(acc, ps[i]) ELSE acc)

get_by_uuids(S) == ByUuidsFrom(PackagesJson, S, 1, <<>>)

get_installed_packages(st) ==
  get_by_uuids({st.installed[k].uuid : k \in DOMAIN st.installed})

\* Lines 366-387: the packages the menu offers (pkgs).
Pending(ch, u) == u \in DOMAIN ch /\ ch[u].old # ch[u].new

Offered(st) ==
  LET ps == get_installed_packages(st) IN
  SelectSeq([i \in 1..Len(ps) |-> ps[i].uuid], LAMBDA u : Pending(st.changed, u))

\* Lines 401-403: for pkg in pkgs: pkg.rollback().
RECURSIVE RolledBack(_, _, _)
RolledBack(st, pkgs, i) ==
  IF i > Len(pkgs) \/ st.res # "ok" THEN st
  ELSE RolledBack(rollback(st, pkgs[i]), pkgs, i + 1)

\* cli.rollback, the menu answered with opt; sync_game (lines 404 and 408)
\* is reached unless a rollback raised.
rollback_menu(st, opt) ==
  IF Offered(st) = <<>> \/ opt = "back" THEN st
  ELSE LET r == IF opt = "ALL" THEN RolledBack(st, Offered(st), 1)
                ELSE rollback(st, opt)
       IN  IF r.res # "ok" THEN r ELSE sync_game(r)

Revert(opt) ==
  /\ Running
  /\ clock < MaxSyncs
  /\ opt \in {"ALL", "back"} \cup {Offered(State)[i] : i \in 1..Len(Offered(State))}
  /\ Becomes(rollback_menu(State, opt), "rollback_menu", opt, Offered(State))

InitMenu == catalog = "mixed" /\ Fresh

NextMenu ==
  \/ NextSync
  \/ \E opt \in {"ALL", "back"} \cup Uuids : Revert(opt)

SpecMenu == InitMenu /\ [][NextMenu]_vars

(***************************************************************************)
(* The start of the program, cli.check_environment: the snapshot is        *)
(* fetched anew unless it is on disk and younger than an hour, then        *)
(* load_caches runs.  Startup(age, fetch) is a start where the snapshot on *)
(* disk has that age and requests.get ends that way.                       *)
(***************************************************************************)
\* The snapshot the server hands out.
Served == "zips"

\* How requests.get may end: with a response, or raising one of these
\* classes of requests.exceptions.
FetchOutcomes ==
  {"fetched", "requests.ConnectionError", "requests.ConnectTimeout",
   "requests.ReadTimeout"}

\* The classes an exception of class e is an instance of.
Mro(e) ==
  CASE e = "requests.ConnectionError" ->
         {"requests.ConnectionError", "requests.RequestException", "OSError"}
    [] e = "requests.ConnectTimeout" ->
         {"requests.ConnectTimeout", "requests.ConnectionError", "requests.Timeout",
          "requests.RequestException", "OSError"}
    [] e = "requests.ReadTimeout" ->
         {"requests.ReadTimeout", "requests.Timeout", "requests.RequestException",
          "OSError"}

\* cli.py:133 and 135: the names ConnectionError (cli.py imports no other,
\* so it is the builtin class) and Timeout (from requests, cli.py:6).
Handled == {"ConnectionError", "requests.Timeout"}

\* cli.py:129-136 with ModPackages.check_packages_fresh and
\* download_packages: the snapshot on disk afterwards, and the exception
\* that left check_environment, if any.  The file is opened for writing
\* only after requests.get returned.
Refetched(cat, age, fetch) ==
  IF cat # "none" /\ age = "fresh" THEN [cat |-> cat, res |-> "ok"]
  ELSE IF fetch = "fetched" THEN [cat |-> Served, res |-> "ok"]
  ELSE IF Mro(fetch) \cap Handled # {} THEN [cat |-> cat, res |-> "ok"]
  ELSE [cat |-> cat, res |-> fetch]

\* cli.py:138-139 after the refetch rf: load_caches opens packages.json.
check_environment(st, rf) ==
  IF rf.res # "ok" THEN Raise(st, rf.res)
  ELSE IF rf.cat = "none" THEN Raise(st, "FileNotFoundError")
  ELSE Loaded(ReadLedger(st), Catalogs[rf.cat])

Started(rf, age, fetch) ==
  /\ catalog' = rf.cat
  /\ Assigned(check_environment(State, rf), "check_environment", "", <<age, fetch>>)

Startup(age, fetch) == Started(Refetched(catalog, age, fetch), age, fetch)

InitStartup == catalog \in {"none", "solo"} /\ Fresh

NextStartup ==
  \/ \E u \in Uuids : \E s \in AllVersions \cup {None} : Install(u, s)
  \/ \E u \in Uuids : Remove(u)
  \/ Commit
  \/ \E age \in {"fresh", "stale"} : \E fetch \in FetchOutcomes : Startup(age, fetch)

SpecStartup == InitStartup /\ [][NextStartup]_vars

(***************************************************************************)
(* The same machine on the snapshots the extraction is exercised on.       *)
(***************************************************************************)
InitExtract == catalog = "zips" /\ Fresh

SpecExtract == InitExtract /\ [][Next]_vars

InitEscape == catalog = "hostile" /\ Fresh

SpecEscape == InitEscape /\ [][Next]_vars

\* The same machine on the snapshot with a dependency cycle.
InitCycle == catalog = "cycle" /\ Fresh

SpecCycle == InitCycle /\ [][Next]_vars

(***************************************************************************)
(* The search, exercised on queries of the three forms: Search(q) is       *)
(* ModPackages.search(q), whose side effect on selected_version is the     *)
(* step; `last` records the query as the step's arg.                       *)
(***************************************************************************)
Trip(owner, name, vers) == owner \o <<"-">> \o name \o <<"-">> \o vers

Owners == {<<"M">>, <<"N">>, <<"P">>}

QueryNames == {<<"Q", "_", "D">>, <<"X", "Q", "_", "D">>, <<"Z">>}

VersionTexts == {V101, <<"2", ".", "0">>}

Urls == {Url(o, n) : o \in Owners \cup {<<"a", "-", "b", "-", "c">>}, n \in QueryNames}

Texts ==
  { <<"Q", " ", "D">>, <<"q", "_", "d">>, <<"Q", "_", "D">>, <<"x">>, <<"d", "q">>,
    <<"Q", "-", "D">>, <<>> }

Queries ==
  {Trip(o, n, v) : o \in Owners, n \in QueryNames, v \in VersionTexts}
    \cup {Trip(<<"M">>, <<"Q", "_", "D">>, V101) \o <<"-", "r">>}
    \cup Urls \cup Texts

SearchedState(sr) == sr.st

Search(q) ==
  /\ Running
  /\ Becomes(SearchedState(search_query(State, q)), "search", "", q)

InitSearch == catalog = "names" /\ Fresh

NextSearch ==
  \/ \E q \in Queries : Search(q)
  \/ Restart

SpecSearch == InitSearch /\ [][NextSearch]_vars

(***************************************************************************)
(* The version order on version strings as text.  Here a version string is *)
(* the tuple of its characters; version.parse splits it at the dots and    *)
(* reads each part as a decimal number.  Compare(a, b) is the comparison   *)
(* of lines 125 and 198 on two strings, Highest(vs) is                     *)
(* Package.get_highest_version on a package whose versions are vs; `last`  *)
(* records the inputs and the result as the step's arg.                    *)
(***************************************************************************)
Digit(c) ==
  CASE c = "0" -> 0 [] c = "1" -> 1 [] c = "2" -> 2 [] c = "9" -> 9

\* [int(x) for x in t.split('.')], from character i on; n is the number
\* read so far in the current part.
RECURSIVE ParseFrom(_, _, _, _)
ParseFrom(t, i, n, acc) ==
  IF i > Len(t) THEN Append(acc, n)
  ELSE IF t[i] = "." THEN ParseFrom(t, i + 1, 0, Append(acc, n))
  ELSE ParseFrom(t, i + 1, 10 * n + Digit(t[i]), acc)

\* Mutant: the string is compared character by character ('.' sorts
\* before the digits).
version_parse_lexical(t) ==
  [i \in 1..Len(t) |-> IF t[i] = "." THEN 0 - 1 ELSE Digit(t[i])]

\* version.parse
version_parse(t) == ParseFrom(t, 1, 0, <<>>)

\* version.parse(a) < version.parse(b)
TextLess(a, b) == VersionLess(version_parse(a), version_parse(b))

\* The package whose version strings are vs, in list order.
Versioned(vs) == [versions |-> [i \in 1..Len(vs) |-> [version |-> version_parse(vs[i])]]]

\* str(n)
NumText(n) ==
  CASE n = 0 -> <<"0">> [] n = 1 -> <<"1">> [] n = 2 -> <<"2">> [] n = 9 -> <<"9">>
    [] n = 10 -> <<"1", "0">>

\* '.'.join(str(n) for n in ns)
RECURSIVE Dotted(_)
Dotted(ns) ==
  IF Len(ns) = 1 THEN NumText(ns[1])
  ELSE NumText(ns[1]) \o <<".">> \o Dotted(Tail(ns))

\* The release numbers of the version strings the order is exercised on.
Releases ==
  {<<n>> : n \in {0, 9, 10}} \cup {<<n, m>> : n \in {0, 9, 10}, m \in {0, 9, 10}}
    \cup {<<1, 1, 9>>, <<1, 1, 10>>, <<1, 2, 0>>, <<9, 0, 0>>, <<9, 9, 10>>}

VersionInputs == {Dotted(ns) : ns \in Releases}

\* The version strings the version lists are made of, and the lists.
ListedVersions == {Dotted(ns) : ns \in {<<9>>, <<10>>, <<9, 0>>, <<9, 10>>, <<1, 1, 9>>}}

VersionLists ==
  {<<>>} \cup {<<a>> : a \in ListedVersions}
    \cup {<<a, b>> : a \in ListedVersions, b \in ListedVersions}
    \cup {<<a, b, c>> : a \in ListedVersions, b \in ListedVersions, c \in ListedVersions}

Compare(a, b) ==
  /\ Running
  /\ Becomes(State, "version_less", "", <<a, b, TextLess(a, b)>>)

Highest(vs) ==
  /\ Running
  /\ Becomes(State, "get_highest_version", "", <<vs, get_highest_version(Versioned(vs))>>)

InitVersion == catalog = "zips" /\ Fresh

NextVersion ==
  \/ \E a \in VersionInputs : \E b \in VersionInputs : Compare(a, b)
  \/ \E vs \in VersionLists : Highest(vs)

SpecVersion == InitVersion /\ [][NextVersion]_vars

(***************************************************************************)
(* Vocabulary of the properties.                                           *)
(***************************************************************************)
NameOf(u) == get_by_uuid(u).name

\* The version of package u the ledger records: installed[name] exists and
\* carries u's uuid; None otherwise.
LedgerVersion(inst, u) ==
  IF NameOf(u) \in DOMAIN inst /\ inst[NameOf(u)].uuid = u
  THEN inst[NameOf(u)].version ELSE None

\* v is a version of u that no version of u exceeds.
IsHighest(u, v) ==
  /\ v \in VersionsOf(u)
  /\ \A w \in VersionsOf(u) : ~VersionLess(v, w)

Ok(op) == last.op = op /\ last.res = "ok"

(***************************************************************************)
(* C1.  No package name is at the same time a key of `installed` and a     *)
(* member of `removed`, in every state the operations reach from the empty *)
(* ledger.                                                                 *)
(***************************************************************************)
C1_InstalledRemovedDisjoint ==
  \A n \in DOMAIN installed : ~InSeq(n, removed)

\* A removal has completed while another package is installed.
C1_Witness ==
  /\ Ok("remove")
  /\ removed # <<>>
  /\ DOMAIN installed # {}

InstalledAt(u, v) ==
  /\ NameOf(u) \in DOMAIN installed'
  /\ installed'[NameOf(u)] = [uuid |-> u, version |-> v]
  /\ installed_version'[u] = v
  /\ ~InSeq(NameOf(u), removed')

C7_InstallResult ==
  [][\A u \in Uuids :
       (last'.op = "install" /\ last'.pkg = u /\ last'.res = "ok") =>
         \E v \in VersionsOf(u) :
           /\ InstalledAt(u, v)
           /\ IF last'.arg # None THEN v = last'.arg
              ELSE IF selected_version[u] # None THEN v = selected_version[u]
              ELSE IsHighest(u, v)]_vars

\* An install with no version selected has completed on a package that has
\* more than one version.
C7_Witness ==
  /\ Ok("install")
  /\ selected_version[last.pkg] = None
  /\ Cardinality(VersionsOf(last.pkg)) > 1
  /\ IsHighest(last.pkg, installed_version[last.pkg])

(***************************************************************************)
(* Further vocabulary: what a reload of a ledger file yields, the handler  *)
(* a step ran, and the dependency specifiers of a version.                 *)
(***************************************************************************)
Stored(f, empty) == IF f.exists THEN f.data ELSE empty

Ran(op, u) == last'.op = op /\ last'.pkg = u

DepsOf(p, v) == p.versions[get_version(p, v)].dependencies

\* The packages ModPackages.search returns for specifier d.
DepMatches(d) == Matches(PackagesJson, d, 1)

NotOlder(a, b) == a # None /\ ~VersionLess(a, b)

(***************************************************************************)
(* C2.  For every uuid with an entry in `changed`: `old` is the version of *)
(* that package the ledger recorded (or none) right before the entry was   *)
(* opened, later steps never alter `old`, and after a completed install,   *)
(* upgrade or removal of a package `new` is the version the ledger then    *)
(* records for it; in every catalog and across a restart.                  *)
(***************************************************************************)
C2_ChangedOldNew ==
  [][\A u \in Uuids :
       /\ (u \in DOMAIN changed' /\ u \notin DOMAIN changed) =>
            changed'[u].old = LedgerVersion(installed, u)
       /\ (u \in DOMAIN changed' /\ u \in DOMAIN changed) =>
            changed'[u].old = changed[u].old
       /\ (last'.pkg = u /\ last'.res = "ok"
             /\ last'.op \in {"install", "upgrade", "remove"}) =>
            (u \in DOMAIN changed' /\ changed'[u].new = LedgerVersion(installed', u))]_vars

(***************************************************************************)
(* C4.  After a ledger load and after every completed operation, for every *)
(* package p, p.installed_version is set if and only if installed[p.name]  *)
(* exists and records p's uuid, and it then equals that entry's version.   *)
(***************************************************************************)
C4_InstalledVersionMirrors ==
  last.res = "ok" =>
    \A u \in Uuids : installed_version[u] = LedgerVersion(installed, u)

(***************************************************************************)
(* C5.  In every reachable state, a package's installed_version, if set,   *)
(* is the version string of one of the package's own versions.             *)
(***************************************************************************)
C5_InstalledVersionOwn ==
  \A u \in Uuids :
    installed_version[u] # None => installed_version[u] \in VersionsOf(u)

(***************************************************************************)
(* C6.  Whenever control has left an operation that mutates the ledger,    *)
(* whether it returned or raised, reloading the three ledger files (a      *)
(* missing file reading as empty) yields the in-memory installed, removed  *)
(* and changed.                                                            *)
(***************************************************************************)
C6_LedgerDurable ==
  /\ Stored(ifile, EmptyMap) = installed
  /\ Stored(rfile, <<>>) = removed
  /\ Stored(cfile, EmptyMap) = changed

(***************************************************************************)
(* C8.  After Install(pkg) completes successfully, every package that      *)
(* search returns for a dependency specifier of the resolved version is    *)
(* recorded in the ledger at a version not older than the specifier's; a   *)
(* dependency whose ledger record changed, or whose `changed` entry was    *)
(* opened, during the call was not installed or was older than that        *)
(* version before, and none is downgraded.                                 *)
(***************************************************************************)
DepInstalled(p, vers) ==
  /\ NotOlder(LedgerVersion(installed', p), vers)
  /\ (LedgerVersion(installed', p) # LedgerVersion(installed, p)
        \/ (p \in DOMAIN changed' /\ p \notin DOMAIN changed)) =>
       ~NotOlder(LedgerVersion(installed, p), vers)
  /\ LedgerVersion(installed, p) # None =>
       NotOlder(LedgerVersion(installed', p), LedgerVersion(installed, p))

DepsInstalled(deps) ==
  \A i \in 1..Len(deps) :
    \A k \in 1..Len(DepMatches(deps[i])) :
      DepInstalled(DepMatches(deps[i])[k], deps[i][3])

C8_DependenciesInstalled ==
  [][\A u \in Uuids :
       (Ran("install", u) /\ last'.res = "ok") =>
         DepsInstalled(DepsOf(get_by_uuid(u), installed_version'[u]))]_vars

(***************************************************************************)
(* C9.  Rollback(pkg): with no entry in `changed` or with old = new,       *)
(* nothing changes; with old none and new set, pkg ends with no entry in   *)
(* `installed`; otherwise installed[pkg.name].version ends as `old`.       *)
(***************************************************************************)
C9_RollbackResult ==
  [][\A u \in Uuids :
       Ran("rollback", u) =>
         IF u \notin DOMAIN changed \/ changed[u].old = changed[u].new
         THEN UNCHANGED <<selected_version, installed_version, installed, removed,
                          changed, ifile, rfile, cfile, client, server, cache>>
         ELSE IF changed[u].old = None
         THEN NameOf(u) \notin DOMAIN installed'
         ELSE /\ NameOf(u) \in DOMAIN installed'
              /\ installed'[NameOf(u)].version = changed[u].old]_vars

(***************************************************************************)
(* C10.  After Rollback(pkg) on a package with an entry in `changed`, the  *)
(* entry is still present, its `old` is unchanged and its `new` equals     *)
(* `old`; no operation other than commit takes an entry out of `changed`.  *)
(***************************************************************************)
C10_RollbackKeepsEntry ==
  [][/\ \A u \in Uuids :
          (Ran("rollback", u) /\ u \in DOMAIN changed) =>
            /\ u \in DOMAIN changed'
            /\ changed'[u].old = changed[u].old
            /\ changed'[u].new = changed[u].old
     /\ last'.op \in {"install", "upgrade", "remove", "rollback"} =>
          DOMAIN changed \subseteq DOMAIN changed']_vars

(***************************************************************************)
(* C11.  A commit empties `changed` and `removed`, in memory and in their  *)
(* files, and leaves `installed` and every package's installed_version and *)
(* selected_version unchanged; no install, upgrade, remove or rollback     *)
(* takes an entry out of `changed`.                                        *)
(***************************************************************************)
C11_CommitClears ==
  [][/\ last'.op = "commit" =>
          /\ changed' = EmptyMap
          /\ removed' = <<>>
          /\ Stored(cfile', EmptyMap) = EmptyMap
          /\ Stored(rfile', <<>>) = <<>>
          /\ UNCHANGED <<installed, ifile, installed_version, selected_version>>
     /\ last'.op \in {"install", "upgrade", "remove", "rollback"} =>
          \A u \in DOMAIN changed : u \in DOMAIN changed']_vars

\* A commit has run on a ledger with an installed package, a removed one
\* behind it: the pending files are gone, installed.json is kept.
C11_Witness ==
  /\ Ok("commit")
  /\ installed # EmptyMap
  /\ ifile.exists /\ ~cfile.exists /\ ~rfile.exists
  /\ \E u \in Uuids : installed_version[u] # None /\ selected_version[u] # None

(***************************************************************************)
(* C12.  For a package whose `changed` entry was opened with no installed  *)
(* version, an install followed by a removal of the same package yields    *)
(* changed[uuid] = {old: none, new: none}, no `installed` entry for the    *)
(* package's name, and the name in `removed`.                              *)
(***************************************************************************)
C12_InstallThenRemove ==
  [][\A u \in Uuids :
       (Ran("remove", u) /\ last.op = "install" /\ last.pkg = u
          /\ u \in DOMAIN changed /\ changed[u].old = None) =>
         /\ last'.res = "ok"
         /\ changed'[u] = [old |-> None, new |-> None]
         /\ NameOf(u) \notin DOMAIN installed'
         /\ InSeq(NameOf(u), removed')]_vars

\* A removal has completed on a package that was installed before (its
\* archive is in the cache) and whose entry reads {none, none}.
C12_Witness ==
  /\ Ok("remove")
  /\ last.pkg \in DOMAIN changed
  /\ changed[last.pkg] = [old |-> None, new |-> None]
  /\ \E k \in DOMAIN cache : cache[k].uuid = last.pkg
  /\ InSeq(NameOf(last.pkg), removed)

(***************************************************************************)
(* C13.  Remove(pkg) completes without error for any catalog package, one  *)
(* with no `installed` entry and no installed_version included: it sets    *)
(* changed[pkg.uuid].new to none, leaves `installed` without pkg.name,     *)
(* leaves pkg.name in `removed` exactly once, and writes all three files.  *)
(***************************************************************************)
C13_RemoveCompletes ==
  [][\A u \in Uuids :
       Ran("remove", u) =>
         /\ last'.res = "ok"
         /\ u \in DOMAIN changed' /\ changed'[u].new = None
         /\ NameOf(u) \notin DOMAIN installed'
         /\ Cardinality({i \in 1..Len(removed') : removed'[i] = NameOf(u)}) = 1
         /\ ifile' = File(installed')
         /\ rfile' = File(removed')
         /\ cfile' = File(changed')]_vars

(***************************************************************************)
(* C15.  After Remove(pkg) completes, neither staging tree holds a file    *)
(* that an install extracted from an archive of pkg, for every package,    *)
(* one whose destination root is overridden included.                      *)
(***************************************************************************)
NoFileOf(tree, u) == \A q \in DOMAIN tree : tree[q].uuid # u

C15_RemoveClearsFiles ==
  [][\A u \in Uuids :
       (Ran("remove", u) /\ last'.res = "ok") =>
         (NoFileOf(client', u) /\ NoFileOf(server', u))]_vars

(***************************************************************************)
(* C16.  After Upgrade(pkg) completes successfully, pkg.selected_version   *)
(* and installed[pkg.name].version both equal the highest version of pkg,  *)
(* and check_update_available(pkg) returns false.                          *)
(***************************************************************************)
C16_UpgradeResult ==
  [][\A u \in Uuids :
       (Ran("upgrade", u) /\ last'.res = "ok") =>
         /\ IsHighest(u, selected_version'[u])
         /\ NameOf(u) \in DOMAIN installed'
         /\ installed'[NameOf(u)].uuid = u
         /\ installed'[NameOf(u)].version = selected_version'[u]
         /\ ~check_update_available(get_by_uuid(u), installed_version'[u])]_vars

\* An upgrade has completed on a package that was installed at an older
\* version when its pending change was opened.
C16_Witness ==
  /\ Ok("upgrade")
  /\ last.pkg \in DOMAIN changed
  /\ changed[last.pkg].old # None
  /\ VersionLess(changed[last.pkg].old, changed[last.pkg].new)
  /\ IsHighest(last.pkg, installed_version[last.pkg])

(***************************************************************************)
(* C17.  check_update_available(pkg) returns false when the ledger records *)
(* no installed version of pkg, and otherwise true if and only if the      *)
(* recorded version differs from the highest version of pkg.               *)
(***************************************************************************)
C17_CheckUpdate ==
  last.res = "ok" =>
    \A u \in Uuids :
      check_update_available(get_by_uuid(u), installed_version[u])
        = (/\ LedgerVersion(installed, u) # None
           /\ LedgerVersion(installed, u) # HighestVersion(get_by_uuid(u)))

(***************************************************************************)
(* C14.  If the download of pkg's archive or its extraction into the       *)
(* client tree or into a required server tree fails, the install aborts    *)
(* with the error and installed[pkg.name], changed[pkg.uuid], the          *)
(* membership of pkg.name in `removed` and pkg.installed_version keep      *)
(* their values, for the failing package and for the package the install   *)
(* was called on; a package whose ledger entry an install writes has every *)
(* surviving entry of its archive in each tree it requires.                *)
(***************************************************************************)
KeepsLedger(u) ==
  /\ (NameOf(u) \in DOMAIN installed') = (NameOf(u) \in DOMAIN installed)
  /\ NameOf(u) \in DOMAIN installed => installed'[NameOf(u)] = installed[NameOf(u)]
  /\ (u \in DOMAIN changed') = (u \in DOMAIN changed)
  /\ u \in DOMAIN changed => changed'[u] = changed[u]
  /\ InSeq(NameOf(u), removed') = InSeq(NameOf(u), removed)
  /\ installed_version'[u] = installed_version[u]

ExtractedAll(tree, name, files) ==
  \A i \in 1..Len(files) :
    NormalizeEntry(name, files[i]) # None =>
      (DestRoot(name) \o NormalizeEntry(name, files[i])) \in DOMAIN tree

ExtractedFor(p, v) ==
  /\ <<p.name, v>> \in DOMAIN cache'
  /\ ExtractedAll(client', p.name, ArchiveFiles(cache'[<<p.name, v>>]))
  /\ ("Server-side" \in p.categories \/ p.name \in override_server) =>
       ExtractedAll(server', p.name, ArchiveFiles(cache'[<<p.name, v>>]))

C14_FailedInstallKeepsLedger ==
  [][/\ (last'.op = "install" /\ last'.res \in {"ConnectionError", "OSError"}) =>
          (KeepsLedger(last'.arg[1]) /\ KeepsLedger(last'.pkg))
     /\ last'.op = "install" =>
          \A p \in Uuids :
            (LedgerVersion(installed', p) # None
               /\ LedgerVersion(installed', p) # LedgerVersion(installed, p)) =>
              ExtractedFor(get_by_uuid(p), LedgerVersion(installed', p))]_vars

\* An install has failed in an extraction after the archive of its package
\* was fetched and a file of it written, and the ledger has no entry of it.
C14_Witness ==
  /\ last.op = "install" /\ last.res = "OSError"
  /\ \E k \in DOMAIN cache : cache[k].uuid = last.pkg
  /\ ~NoFileOf(client, last.pkg)
  /\ LedgerVersion(installed, last.pkg) = None
  /\ installed_version[last.pkg] = None
  /\ last.pkg \notin DOMAIN changed

(***************************************************************************)
(* Vocabulary of the search properties: the results of query q in the      *)
(* state before the step, as a list and as a set.                          *)
(***************************************************************************)
Results(q) == search_query(State, q).results

Elems(s) == {s[i] : i \in 1..Len(s)}

\* The list rs holds exactly the uuids of set S, each once.
Exactly(rs, S) == Elems(rs) = S /\ Len(rs) = Cardinality(S)

(***************************************************************************)
(* C18.  search(q) for an exact owner-name-version triple q returns        *)
(* exactly the catalog packages whose owner and name are the parsed owner  *)
(* and name, sets the selected_version of every returned package to the    *)
(* parsed version and leaves that of every other package unchanged.        *)
(***************************************************************************)
C18_SearchTriple ==
  [][\A o \in Owners : \A n \in QueryNames : \A v \in VersionTexts :
       (last'.op = "search" /\ last'.arg = Trip(o, n, v)) =>
         /\ Exactly(Results(last'.arg),
                    {u \in Uuids : get_by_uuid(u).owner = o /\ get_by_uuid(u).name = n})
         /\ \A u \in Uuids :
              selected_version'[u] =
                IF get_by_uuid(u).owner = o /\ get_by_uuid(u).name = n
                THEN v ELSE selected_version[u]]_vars

\* Triple searches have set two packages to different versions, the last
\* one leaving the first package's selection as it was.
C18_Witness ==
  /\ last.op = "search"
  /\ last.arg = Trip(<<"N">>, <<"Q", "_", "D">>, <<"2", ".", "0">>)
  /\ selected_version["uQD2"] = <<"2", ".", "0">>
  /\ selected_version["uQD"] = V101

(***************************************************************************)
(* C19.  search(q) for a query q that is the URL of a catalog package      *)
(* returns exactly the packages whose URL equals q, whatever characters    *)
(* the URL contains, and changes no package's selected_version.            *)
(***************************************************************************)
C19_SearchUrl ==
  [][\A p \in Uuids :
       (last'.op = "search" /\ last'.arg = get_by_uuid(p).url) =>
         /\ Exactly(Results(last'.arg),
                    {u \in Uuids : get_by_uuid(u).url = last'.arg})
         /\ UNCHANGED selected_version]_vars

(***************************************************************************)
(* C20.  search(q) for a free-text query q returns exactly the catalog     *)
(* packages whose lower-cased name contains q lower-cased with spaces      *)
(* replaced by underscores, same-named packages of different owners all    *)
(* included, and changes no package's selected_version.                    *)
(***************************************************************************)
C20_SearchText ==
  [][(last'.op = "search" /\ last'.arg \in Texts) =>
       /\ Exactly(Results(last'.arg),
                  {u \in Uuids : Contains(lower(get_by_uuid(u).name),
                                          replace(lower(last'.arg), " ", "_"))})
       /\ UNCHANGED selected_version]_vars

\* A free-text search with a space and capitals has run after a triple
\* search had selected a version.
C20_Witness ==
  /\ last.op = "search"
  /\ last.arg = <<"Q", " ", "D">>
  /\ selected_version["uQD"] = V101
  /\ selected_version["uQD2"] = None

(***************************************************************************)
(* C21.  For a package named N without override, the extraction writes     *)
(* each archive entry e to <destination root of N>/r, where r is e with    *)
(* backslashes replaced by '/', then one leading plugins/N/ removed if     *)
(* present, then one leading N/ removed if present; an entry whose r is    *)
(* empty or ends in '/' is skipped, and nothing else is written.  So       *)
(* plugins/N/N/x.dll lands at x.dll and plugins/N/README.md at README.md   *)
(* under the destination root.  Checked on every install and upgrade of    *)
(* the snapshot `zips`.                                                    *)
(***************************************************************************)
\* s without its leading d + '/', when it has one.
Cut(s, d) ==
  IF Len(s) > Len(d) /\ \A i \in 1..Len(d) : s[i] = d[i]
  THEN [i \in 1..(Len(s) - Len(d)) |-> s[i + Len(d)]]
  ELSE s

\* The relative name r of the claim for entry e of a package named n (the
\* segments of e are what its name splits into once '\' reads as '/').
Landing(n, e) == Cut(Cut(e.segs, <<"plugins", n>>), <<n>>)

Skipped(r) == r = <<"">> \/ r[Len(r)] = ""

\* The paths the entries of `files` land on in a tree.
LandingPaths(n, files) ==
  { <<"BepInEx", "plugins", n>> \o Landing(n, files[i]) :
      i \in {k \in 1..Len(files) : ~Skipped(Landing(n, files[k]))} }

\* tree2 is tree1 with exactly the paths of S written, each holding c.
WrittenExactly(tree1, tree2, S, c) ==
  /\ DOMAIN tree2 = DOMAIN tree1 \cup S
  /\ \A q \in DOMAIN tree2 : tree2[q] = IF q \in S THEN c ELSE tree1[q]

ExtractedAs(u, p, v) ==
  /\ WrittenExactly(client, client', LandingPaths(p.name, FilesOf(p, v)),
                    [uuid |-> u, version |-> v])
  /\ "Server-side" \in p.categories =>
       WrittenExactly(server, server', LandingPaths(p.name, FilesOf(p, v)),
                      [uuid |-> u, version |-> v])

C21_ExtractNormalizes ==
  [][\A u \in Uuids :
       /\ Ran("install", u) \/ Ran("upgrade", u)
       /\ last'.res = "ok"
       /\ NameOf(u) \notin DOMAIN overrides
       => ExtractedAs(u, get_by_uuid(u), installed_version'[u])]_vars

\* Version 2.0.0 of Mod was extracted into an empty tree: the nested prefix
\* plugins/Mod/Mod/ and the single prefixes are gone, a second prefix stays.
C21_Witness ==
  /\ catalog = "zips"
  /\ Ok("install") /\ last.pkg = "uMod" /\ installed_version["uMod"] = <<2, 0, 0>>
  /\ DOMAIN client =
       { <<"BepInEx", "plugins", "Mod">> \o r :
           r \in { <<"x.dll">>, <<"README.md">>, <<"y.dll">>, <<"z.dll">>,
                   <<"plugins", "Mod", "w.dll">>, <<"plugins", "Mod", "v.dll">>,
                   <<"Mod", "u.dll">>, <<"docs", "a.txt">> } }
  /\ DOMAIN server = DOMAIN client

(***************************************************************************)
(* C29.  Every file the extraction writes lies inside the destination      *)
(* root of the package being extracted, within the tree it is extracted    *)
(* to, whatever the archive's entry names are: names with '..' segments    *)
(* and names that start with '/' included.                                 *)
(***************************************************************************)
\* Path q of a tree lies under the directory d of that tree.
Inside(q, d) == StartsWithDir(q, d) /\ q[1] # ".." /\ q[1] # ""

\* The paths whose file was created or given another content by the step.
WrittenPaths(tree1, tree2) ==
  {q \in DOMAIN tree2 : q \notin DOMAIN tree1 \/ tree2[q] # tree1[q]}

C29_ExtractStaysInside ==
  [][\A u \in Uuids :
       Ran("install", u) \/ Ran("upgrade", u) \/ Ran("rollback", u)
       => \A q \in WrittenPaths(client, client') \cup WrittenPaths(server, server') :
            Inside(q, DestRoot(NameOf(u)))]_vars

(***************************************************************************)
(* C30.  Whenever Install, Upgrade or Rollback leaves version v of a       *)
(* package installed, the files of the package in each staging tree it was *)
(* extracted to are exactly the normalized entries of v's archive: every   *)
(* such entry is there, and no file that only an earlier installed version *)
(* of the package contained remains staged.                                *)
(***************************************************************************)
\* Every file of the tree that was extracted for package u comes from the
\* archive of its version v.
OnlyVersion(tree, u, v) ==
  \A q \in DOMAIN tree : tree[q].uuid = u => tree[q].version = v

StagedExactly(u, p, v) ==
  /\ ExtractedAll(client', p.name, FilesOf(p, v))
  /\ OnlyVersion(client', u, v)
  /\ ("Server-side" \in p.categories \/ p.name \in override_server) =>
       /\ ExtractedAll(server', p.name, FilesOf(p, v))
       /\ OnlyVersion(server', u, v)

C30_NoStaleFiles ==
  [][\A u \in Uuids :
       /\ Ran("install", u) \/ Ran("upgrade", u) \/ Ran("rollback", u)
       /\ last'.res = "ok"
       /\ installed_version'[u] # None
       => StagedExactly(u, get_by_uuid(u), installed_version'[u])]_vars

(***************************************************************************)
(* C26.  Remove(A) or Rollback(A) deletes the `installed` entry of A's     *)
(* name only when that entry records A's uuid: it never removes or         *)
(* replaces the installed record of a different package B that shares A's  *)
(* name.  And installing B never drops A's installed record while A's      *)
(* installed_version stays set.                                            *)
(***************************************************************************)
\* The record `installed` holds for package b, by b's own uuid, stays.
RecordKept(b) ==
  (NameOf(b) \in DOMAIN installed /\ installed[NameOf(b)].uuid = b)
    => /\ NameOf(b) \in DOMAIN installed'
       /\ installed'[NameOf(b)] = installed[NameOf(b)]

C26_SharedNameFrame ==
  [][\A a \in Uuids : \A b \in {x \in Uuids \ {a} : NameOf(x) = NameOf(a)} :
       /\ (Ran("remove", a) \/ Ran("rollback", a)) /\ last'.res = "ok"
            => RecordKept(b)
       /\ (Ran("install", a) /\ last'.res = "ok" /\ installed_version'[b] # None)
            => RecordKept(b)]_vars

(***************************************************************************)
(* C24.  The version order compares dotted-numeric version strings part by *)
(* part as integers, not as text (1.1.9 < 1.1.10 < 1.2.0), and it is       *)
(* irreflexive and transitive on such strings; get_highest_version returns *)
(* a version of the package that no other version of the package exceeds.  *)
(***************************************************************************)
\* The rank of release numbers ns (at most three, each below 100), a
\* missing trailing number counting as 0.
Rank(ns) == Seg(ns, 1) * 10000 + Seg(ns, 2) * 100 + Seg(ns, 3)

\* The string a is below the string b by the numbers they were written from.
NumericallyLess(a, b) ==
  \E ns \in Releases : \E ms \in Releases :
    a = Dotted(ns) /\ b = Dotted(ms) /\ Rank(ns) < Rank(ms)

OrderedAsNumbers(a, b, less) ==
  /\ less = NumericallyLess(a, b)
  /\ a = b => ~less
  /\ \A c \in VersionInputs : (less /\ TextLess(b, c)) => TextLess(a, c)
  /\ (a = Dotted(<<1, 1, 9>>) /\ b = Dotted(<<1, 1, 10>>)) => less
  /\ (a = Dotted(<<1, 1, 10>>) /\ b = Dotted(<<1, 2, 0>>)) => less

\* k is the index of a version of the list vs that none of vs exceeds.
Unexceeded(vs, k) ==
  vs # <<>> => (k \in 1..Len(vs) /\ \A j \in 1..Len(vs) : ~NumericallyLess(vs[k], vs[j]))

C24_VersionOrder ==
  /\ last.op = "version_less" =>
       OrderedAsNumbers(last.arg[1], last.arg[2], last.arg[3])
  /\ last.op = "get_highest_version" => Unexceeded(last.arg[1], last.arg[2])

\* 1.1.9 was found below 1.1.10, and the highest of 9.10, 1.1.9, 10 is 10.
C24_Witness ==
  \/ /\ last.op = "version_less"
     /\ last.arg = <<Dotted(<<1, 1, 9>>), Dotted(<<1, 1, 10>>), TRUE>>
  \/ /\ last.op = "get_highest_version"
     /\ last.arg = <<<<Dotted(<<9, 10>>), Dotted(<<1, 1, 9>>), Dotted(<<10>>)>>, 3>>

(***************************************************************************)
(* C27.  Install(pkg) terminates if and only if no cycle of dependencies   *)
(* that are not yet satisfied is reachable from the version of pkg it      *)
(* resolves: where there is none it returns, and on a cycle of packages    *)
(* that are not installed, or installed older than required, the recursion *)
(* never ends and the ledger is never written.  (A recursion that never    *)
(* ends is one that passes the depth bound.)                               *)
(***************************************************************************)
\* The version the call resolves (lines 185-188) for package u, s being the
\* version the caller selected, if any.
ResolvedVersion(u, s) ==
  IF s # None THEN s
  ELSE IF selected_version[u] # None THEN selected_version[u]
  ELSE HighestVersion(get_by_uuid(u))

\* The dependencies of version n[2] of package n[1] that are not satisfied:
\* the packages they name are not installed or installed older.
Unsatisfied(n) ==
  LET deps == DepsOf(get_by_uuid(n[1]), n[2])
  IN  UNION {{<<q, deps[i][3]>> :
                q \in {x \in Uuids :
                         /\ InSeq(x, DepMatches(deps[i]))
                         /\ \/ installed_version[x] = None
                            \/ VersionLess(installed_version[x], deps[i][3])}} :
             i \in 1..Len(deps)}

\* The nodes reachable from the node set S along unsatisfied dependencies.
RECURSIVE ReachFrom(_)
ReachFrom(S) ==
  IF (UNION {Unsatisfied(n) : n \in S}) \subseteq S THEN S
  ELSE ReachFrom(S \cup UNION {Unsatisfied(n) : n \in S})

CycleFrom(n) ==
  \E m \in ReachFrom({n}) : m \in ReachFrom(Unsatisfied(m))

LedgerUntouched ==
  /\ installed' = installed /\ removed' = removed /\ changed' = changed
  /\ ifile' = ifile /\ rfile' = rfile /\ cfile' = cfile
  /\ installed_version' = installed_version

Persisted(fi, fr, fc) ==
  <<Stored(fi, EmptyMap), Stored(fr, <<>>), Stored(fc, EmptyMap)>>

C28_LedgerAtomic ==
  [][last'.res = "Stopped" =>
       \/ Persisted(ifile', rfile', cfile') = Persisted(ifile, rfile, cfile)
       \/ Persisted(ifile', rfile', cfile') = <<installed', removed', changed'>>]_vars

(***************************************************************************)
(* C23.  A failed refetch of the catalog (a connection error or a timeout  *)
(* of the fetch) is not fatal: the start-up continues and loads the        *)
(* snapshot already on disk, which the failed refetch leaves unmodified;   *)
(* the start-up fails only when no snapshot exists at all.                 *)
(***************************************************************************)
\* The start-up step tried to fetch the snapshot and the fetch failed.
RefetchFailed ==
  /\ last'.op = "check_environment"
  /\ catalog = "none" \/ last'.arg[1] = "stale"
  /\ last'.arg[2] # "fetched"

\* The start-up went on and loaded the snapshot named cat.
LoadedSnapshot(cat) ==
  /\ last'.res = "ok"
  /\ DOMAIN installed_version' = FieldSet(Catalogs[cat], "uuid")
  /\ installed' = Stored(ifile, EmptyMap)

C23_RefetchNotFatal ==
  [][/\ RefetchFailed =>
          /\ catalog' = catalog
          /\ catalog # "none" => LoadedSnapshot(catalog)
     /\ (last'.op = "check_environment" /\ last'.res # "ok") => catalog' = "none"]_vars

(***************************************************************************)
(* C22.  After a sync every file of the client staging tree exists at the  *)
(* same relative path in the game directory with the same modification     *)
(* time; a file is copied only when it was absent or differed, so a sync   *)
(* that follows a sync immediately copies nothing; and for every name in   *)
(* `removed` the directory BepInEx/plugins/<name> does not exist in the    *)
(* game directory.                                                         *)
(***************************************************************************)
\* The files of the client tree the game directory lacks or holds with
\* another modification time.
Differing ==
  {q \in DOMAIN client :
     q \notin DOMAIN game \/ game[q].mtime # mtime[q] \/ game[q].content # client[q]}

C22_SyncResult ==
  [][last'.op = "sync_game" =>
       /\ \A q \in DOMAIN client' :
            /\ q \in DOMAIN game'
            /\ game'[q].mtime = mtime'[q]
            /\ game'[q].content = client'[q]
       /\ \A q \in DOMAIN game' \ Differing : q \in DOMAIN game /\ game'[q] = game[q]
       /\ last'.arg = <<Cardinality(Differing)>>
       /\ last.op = "sync_game" => last'.arg = <<0>>
       /\ \A i \in 1..Len(removed') :
            \A q \in DOMAIN game' : ~StartsWithDir(q, <<"BepInEx", "plugins", removed'[i]>>)]_vars

\* Lib was installed and synced, removed, and the second sync took its
\* directory out of the game directory, where the base pack's file stays.
C22_Witness ==
  /\ Ok("sync_game")
  /\ clock = 2
  /\ removed = <<"Lib">>
  /\ DOMAIN client = {<<"winhttp.dll">>}
  /\ DOMAIN game = {<<"winhttp.dll">>}
  /\ game[<<"winhttp.dll">>].mtime = mtime[<<"winhttp.dll">>]

(***************************************************************************)
(* C25.  If, starting from a ledger whose `changed` is empty, any sequence *)
(* of Install, Upgrade and Remove is performed and Rollback is then        *)
(* applied once to every package that has a `changed` entry, in any order, *)
(* the name -> (uuid, version) content of `installed` equals its content   *)
(* at the start; also when packages share a name and when installed        *)
(* packages depend on one another.                                         *)
(***************************************************************************)
C25_RollbackRestores ==
  (last.op = "rollback" /\ last.res = "ok" /\ DOMAIN changed \subseteq last.arg.done)
    => installed = last.arg.start

(***************************************************************************)
(* C31.  The archive that Install extracts for package P at version v is   *)
(* always the content fetched from that version's download URL, also when  *)
(* a different catalog package with the same name and the same version     *)
(* string was installed earlier, and also when an earlier download for     *)
(* that cache key failed or returned an error body.                        *)
(***************************************************************************)
\* The archive of u's version v as its download URL serves it.
ServedArchive(u, v) == [uuid |-> u, version |-> v]

\* The archive the last install of u extracted: the file of the archive
\* cache named by the package's name and the version it installed.
ExtractedArchive(u) == cache[<<NameOf(u), installed_version[u]>>]

C31_InstallExtractsOwnArchive ==
  \A u \in Uuids :
    (Ok("install") /\ last.pkg = u)
      => ExtractedArchive(u) = ServedArchive(u, installed_version[u])

(***************************************************************************)
(* C32.  In the export/deploy flow, commit (clearing `changed` and         *)
(* `removed`) is reached only after all exports and, when a remote host is *)
(* configured, the remote upload have completed without error; if the      *)
(* upload fails for any reason the pending-change log is kept.             *)
(***************************************************************************)
\* The pending-change log, in memory and on disk, is as it was.
LogKept ==
  /\ changed' = changed /\ removed' = removed
  /\ cfile' = cfile /\ rfile' = rfile

C32_CommitAfterDeploy ==
  [][last'.op = "export_package" =>
       /\ last'.res = "ok" =>
            /\ last'.arg.exported = {Exports[i] : i \in 1..Len(Exports)}
            /\ last'.arg.host => last'.arg.upload = "done"
       /\ last'.arg.upload = "failed" => LogKept]_vars

(***************************************************************************)
(* C33.  The Revert Modifications menu offers a rollback for every package *)
(* whose pending change has old different from new, including a package    *)
(* removed since the last commit (offered as a reinstall of `old`), and    *)
(* 'Rollback everything' applies Rollback to all of them.                  *)
(***************************************************************************)
\* The packages with a pending change.
PendingPackages == {u \in DOMAIN changed : Pending(changed, u)}

C33_MenuOffersPending ==
  [][last'.op = "rollback_menu" =>
       /\ PendingPackages \subseteq {last'.arg[i] : i \in 1..Len(last'.arg)}
       /\ (last'.pkg = "ALL" /\ last'.res = "ok") =>
            \A u \in PendingPackages : installed_version'[u] = changed[u].old]_vars

====
